---- MODULE Spec2Model ----
(***************************************************************************)
(* The physics debug overlay of src/plugins/debug.rs (PhysicsDebugPlugin): *)
(* three chained systems that draw collider AABBs, collider shapes and     *)
(* contact points into the frame's gizmo buffer.                           *)
(*                                                                         *)
(* Lengths are fixed-point integers, one unit = 0.1 world units: the arm   *)
(* 3.0 of the centre cross is 30, the arm 0.3 of a contact cross is 3.     *)
(* The 2D configuration (feature "2d", f32 scalars) is modelled.           *)
(***************************************************************************)
EXTENDS Integers, Sequences, FiniteSets, TLC

(***************************************************************************)
(* Bounds of the model.                                                    *)
(***************************************************************************)
\* most entities the collider query yields
MaxEntities == 2
\* most frames of a run
MaxFrames == 2
\* most Collision events the physics step sends in one frame
MaxEvents == 2
\* most points of a ConvexPolygon
MaxPolyPoints == 4

(***************************************************************************)
(* Vectors, transforms and the gizmo primitives.                           *)
(***************************************************************************)
Vec2(x, y) == <<x, y>>

Vec3(x, y, z) == <<x, y, z>>

\* Vec3::truncate: drops z
truncate(v) == <<v[1], v[2]>>

\* Vec2::extend: appends z
extend(v, z) == <<v[1], v[2], z>>

Add2(u, v) == <<u[1] + v[1], u[2] + v[2]>>

Sub2(u, v) == <<u[1] - v[1], u[2] - v[2]>>

\* Vec2 * f32
Mul2(u, k) == <<u[1] * k, u[2] * k>>

Vec2_X == <<1, 0>>

Vec2_Y == <<0, 1>>

\* Quat * Vec3 for a rotation of q quarter turns about the Z axis
Rotate(q, v) ==
    CASE q % 4 = 0 -> v
      [] q % 4 = 1 -> <<-v[2], v[1], v[3]>>
      [] q % 4 = 2 -> <<-v[1], -v[2], v[3]>>
      [] OTHER     -> <<v[2], -v[1], v[3]>>

\* Transform::transform_point: scale, then rotate, then translate
transform_point(t, p) ==
    LET s == <<t.scale[1] * p[1], t.scale[2] * p[2], t.scale[3] * p[3]>>
        r == Rotate(t.rotation, s)
    IN  <<r[1] + t.translation[1], r[2] + t.translation[2], r[3] + t.translation[3]>>

\* Transform::from_scale(scale).with_translation(translation)
from_scale_with_translation(scale, translation) ==
    [translation |-> translation, rotation |-> 0, scale |-> scale]

\* Gizmos::line_2d
line_2d(start, end, color) ==
    [prim |-> "line_2d", start |-> start, end |-> end, color |-> color]

\* Gizmos::circle_2d
circle_2d(position, radius, color) ==
    [prim |-> "circle_2d", position |-> position, radius |-> radius, color |-> color]

\* Gizmos::cuboid
cuboid(transform, color) ==
    [prim |-> "cuboid", transform |-> transform, color |-> color]

(***************************************************************************)
(* Collider shapes.  A shape is a record with a kind; as_ball, as_triangle,*)
(* as_convex_polygon and as_cuboid are the type probes of the shape.       *)
(***************************************************************************)
as_ball(shape) == shape.kind = "Ball"

as_triangle(shape) == shape.kind = "Triangle"

as_convex_polygon(shape) == shape.kind = "ConvexPolygon"

as_cuboid(shape) == shape.kind = "Cuboid"

\* Cuboid::to_polyline: the boundary loop of the half-extents
to_polyline(c) ==
    LET hx == c.half_extents[1]
        hy == c.half_extents[2]
    IN  <<Vec2(-hx, -hy), Vec2(hx, -hy), Vec2(hx, hy), Vec2(-hx, hy)>>

\* length of arm of cross at center (3.0)
x_sz == 30

\* the "+" at the centre of a collider
CenterMarkerUntransformed(transform) ==
    LET o == truncate(transform.translation)
    IN  << line_2d(Add2(o, Vec2(0, x_sz)), Add2(o, Vec2(0, -x_sz)), "GRAY"),
           line_2d(Add2(o, Vec2(x_sz, 0)), Add2(o, Vec2(-x_sz, 0)), "GRAY") >>

CenterMarker(transform) ==
    LET a == truncate(transform_point(transform, Vec3(0, x_sz, 0)))
        b == truncate(transform_point(transform, Vec3(x_sz, 0, 0)))
        c == truncate(transform_point(transform, Vec3(0, -x_sz, 0)))
        d == truncate(transform_point(transform, Vec3(-x_sz, 0, 0)))
    IN  << line_2d(a, c, "GRAY"), line_2d(b, d, "GRAY") >>

\* a ball drawn with its radius scaled by the transform
BallOutlineScaled(ball, transform) ==
    << circle_2d(truncate(transform.translation),
                 ball.radius * transform.scale[1], "WHITE") >>

BallOutline(ball, transform) ==
    << circle_2d(truncate(transform.translation), ball.radius, "WHITE") >>

\* a triangle whose closing edge is left out
TriangleOutlineOpen(triangle, transform) ==
    LET p1 == truncate(transform_point(transform, Vec3(triangle.a[1], triangle.a[2], 0)))
        p2 == truncate(transform_point(transform, Vec3(triangle.b[1], triangle.b[2], 0)))
        p3 == truncate(transform_point(transform, Vec3(triangle.c[1], triangle.c[2], 0)))
    IN  << line_2d(p1, p2, "WHITE"), line_2d(p2, p3, "WHITE") >>

TriangleOutline(triangle, transform) ==
    LET p1 == truncate(transform_point(transform, Vec3(triangle.a[1], triangle.a[2], 0)))
        p2 == truncate(transform_point(transform, Vec3(triangle.b[1], triangle.b[2], 0)))
        p3 == truncate(transform_point(transform, Vec3(triangle.c[1], triangle.c[2], 0)))
    IN  << line_2d(p1, p2, "WHITE"), line_2d(p2, p3, "WHITE"), line_2d(p3, p1, "WHITE") >>

\* the loop `for i in 0..poly.points().len()` from iteration i on (1-based)
RECURSIVE PolyLoop(_, _, _, _)
PolyLoop(points, transform, i, start_p) ==
    IF i > Len(points) THEN <<>>
    ELSE LET p   == points[i]
             tmp == truncate(transform_point(transform, Vec3(p[1], p[2], 0)))
         IN  << line_2d(start_p, tmp, "WHITE") >> \o PolyLoop(points, transform, i + 1, tmp)

\* a polygon walked from its first point instead of its last
ConvexPolygonOutlineFromFirst(poly, transform) ==
    LET first_p == poly.points[1]
        start_p == truncate(transform_point(transform, Vec3(first_p[1], first_p[2], 0)))
    IN  PolyLoop(poly.points, transform, 1, start_p)

ConvexPolygonOutline(poly, transform) ==
    LET last_p  == poly.points[Len(poly.points)]
        start_p == truncate(transform_point(transform, Vec3(last_p[1], last_p[2], 0)))
    IN  PolyLoop(poly.points, transform, 1, start_p)

\* the loop `for i in 0..points.len()` of the cuboid branch; start_p is a Vec3
RECURSIVE CuboidLoop(_, _, _, _)
CuboidLoop(points, transform, i, start_p) ==
    IF i > Len(points) THEN <<>>
    ELSE LET tmp == transform_point(transform, points[i])
         IN  << line_2d(truncate(start_p), truncate(tmp), "WHITE") >>
             \o CuboidLoop(points, transform, i + 1, tmp)

\* a cuboid whose walk starts at the untransformed last point
CuboidOutlineLocalStart(c, transform) ==
    LET pl     == to_polyline(c)
        points == [k \in 1..Len(pl) |-> Vec3(pl[k][1], pl[k][2], 0)]
    IN  CuboidLoop(points, transform, 1, points[Len(points)])

CuboidOutline(c, transform) ==
    LET pl      == to_polyline(c)
        points  == [k \in 1..Len(pl) |-> Vec3(pl[k][1], pl[k][2], 0)]
        start_p == transform_point(transform, points[Len(points)])
    IN  CuboidLoop(points, transform, 1, start_p)

\* the dispatch of one loop iteration of debug_render_colliders: the shape's
\* outline and whether the warning is logged
ShapeDispatchNoCuboid(shape, transform) ==
    IF as_ball(shape) THEN [draws |-> BallOutline(shape, transform), warn |-> FALSE]
    ELSE IF as_triangle(shape) THEN [draws |-> TriangleOutline(shape, transform), warn |-> FALSE]
    ELSE IF as_convex_polygon(shape)
         THEN [draws |-> ConvexPolygonOutline(shape, transform), warn |-> FALSE]
    ELSE [draws |-> <<>>, warn |-> TRUE]

ShapeDispatch(shape, transform) ==
    IF as_ball(shape) THEN [draws |-> BallOutline(shape, transform), warn |-> FALSE]
    ELSE IF as_triangle(shape) THEN [draws |-> TriangleOutline(shape, transform), warn |-> FALSE]
    ELSE IF as_convex_polygon(shape)
         THEN [draws |-> ConvexPolygonOutline(shape, transform), warn |-> FALSE]
    ELSE IF as_cuboid(shape) THEN [draws |-> CuboidOutline(shape, transform), warn |-> FALSE]
    ELSE [draws |-> <<>>, warn |-> TRUE]

\* every gizmo of one loop iteration of debug_render_colliders, in order
ColliderDraws(col, transform) ==
    CenterMarker(transform) \o ShapeDispatch(col, transform).draws


\* half-length of a contact cross (0.3)
ContactArm == 3

\* the second cross drawn at point1 again
ContactMarkersSamePoint(contact) ==
    LET p1 == contact.point1
    IN  << line_2d(Sub2(p1, Mul2(Vec2_X, ContactArm)), Add2(p1, Mul2(Vec2_X, ContactArm)), "CYAN"),
           line_2d(Sub2(p1, Mul2(Vec2_Y, ContactArm)), Add2(p1, Mul2(Vec2_Y, ContactArm)), "CYAN"),
           line_2d(Sub2(p1, Mul2(Vec2_X, ContactArm)), Add2(p1, Mul2(Vec2_X, ContactArm)), "CYAN"),
           line_2d(Sub2(p1, Mul2(Vec2_Y, ContactArm)), Add2(p1, Mul2(Vec2_Y, ContactArm)), "CYAN") >>

\* the gizmos of one loop iteration of debug_render_contacts (feature "2d");
\* as_f32 copies an f32 vector
ContactMarkers(contact) ==
    LET p1 == contact.point1
        p2 == contact.point2
    IN  << line_2d(Sub2(p1, Mul2(Vec2_X, ContactArm)), Add2(p1, Mul2(Vec2_X, ContactArm)), "CYAN"),
           line_2d(Sub2(p1, Mul2(Vec2_Y, ContactArm)), Add2(p1, Mul2(Vec2_Y, ContactArm)), "CYAN"),
           line_2d(Sub2(p2, Mul2(Vec2_X, ContactArm)), Add2(p2, Mul2(Vec2_X, ContactArm)), "CYAN"),
           line_2d(Sub2(p2, Mul2(Vec2_Y, ContactArm)), Add2(p2, Mul2(Vec2_Y, ContactArm)), "CYAN") >>

\* ColliderAabb::extents and ColliderAabb::center
extents(aabb) == Sub2(aabb.maxs, aabb.mins)

center(aabb) == <<(aabb.mins[1] + aabb.maxs[1]) \div 2, (aabb.mins[2] + aabb.maxs[2]) \div 2>>

\* the gizmo of one loop iteration of debug_render_aabbs (feature "2d")
AabbDraws(aabb) ==
    << cuboid(from_scale_with_translation(extend(extents(aabb), 0), extend(center(aabb), 0)),
              "GRAY") >>

(***************************************************************************)
(* The schedule: the three systems chained in PostUpdate, each behind its  *)
(* run condition.                                                          *)
(***************************************************************************)
ChainCollidersLast == <<"debug_render_aabbs", "debug_render_contacts", "debug_render_colliders">>

Chain == <<"debug_render_aabbs", "debug_render_colliders", "debug_render_contacts">>

Systems == {"debug_render_aabbs", "debug_render_colliders", "debug_render_contacts"}

\* the system chained after `system`, "Last" after the chain's end
NextSystem(system) ==
    IF \E k \in 1..(Len(Chain) - 1) : Chain[k] = system
    THEN Chain[(CHOOSE k \in 1..(Len(Chain) - 1) : Chain[k] = system) + 1]
    ELSE "Last"

\* the colliders system run on the contacts toggle
RunIfContactsForColliders(system, cfg) ==
    CASE system = "debug_render_aabbs"     -> cfg.render_aabbs
      [] system = "debug_render_colliders" -> cfg.render_contacts
      [] OTHER                             -> cfg.render_contacts

\* the run_if closure of each system
RunIf(system, cfg) ==
    CASE system = "debug_render_aabbs"     -> cfg.render_aabbs
      [] system = "debug_render_colliders" -> cfg.render_colliders
      [] OTHER                             -> cfg.render_contacts

\* PhysicsDebugConfig::default
DefaultConfig == [render_aabbs |-> TRUE, render_contacts |-> TRUE, render_colliders |-> TRUE]

Toggles == {"render_aabbs", "render_contacts", "render_colliders"}

(***************************************************************************)
(* Events<Collision> and the EventReader of debug_render_contacts.         *)
(***************************************************************************)
\* seq without its first n elements, empty when n is past the end
DropFirst(seq, n) == IF n >= Len(seq) THEN <<>> ELSE SubSeq(seq, n + 1, Len(seq))

\* usize::saturating_sub
saturating_sub(m, n) == IF m > n THEN m - n ELSE 0

\* a reader that reads the whole buffers again, whatever it has read
UnreadAll(a, b, last) == a.events \o b.events

\* EventReader::iter: the events of both buffers the reader has not read,
\* oldest first
Unread(a, b, last) ==
    DropFirst(a.events, saturating_sub(last, a.start_event_count))
        \o DropFirst(b.events, saturating_sub(last, b.start_event_count))

(***************************************************************************)
(* Inputs: the worlds the queries yield and the contacts physics reports.  *)
(***************************************************************************)
Identity == [translation |-> <<0, 0, 0>>, rotation |-> 0, scale |-> <<1, 1, 1>>]

Transforms ==
    [translation : {<<0, 0, 0>>, <<20, -30, 5>>}, rotation : 0..3,
     scale : {<<1, 1, 1>>, <<2, 3, 1>>}]

PolyPool == << <<0, 0>>, <<10, 0>>, <<10, 10>>, <<0, 10>>, <<-5, 5>>, <<-5, -5>> >>

Polygons ==
    { [kind |-> "ConvexPolygon",
       points |-> [k \in 1..n |-> PolyPool[((o + k - 1) % Len(PolyPool)) + 1]]] :
          n \in 3..MaxPolyPoints, o \in 0..1 }

Shapes ==
    { [kind |-> "Ball", radius |-> r] : r \in {10, 25} }
    \cup { [kind |-> "Triangle", a |-> <<0, 0>>, b |-> <<10, 0>>, c |-> <<0, 10>>],
           [kind |-> "Triangle", a |-> <<-10, -5>>, b |-> <<10, -5>>, c |-> <<0, 15>>] }
    \cup Polygons
    \cup { [kind |-> "Cuboid", half_extents |-> h] : h \in {<<10, 10>>, <<20, 5>>} }
    \cup { [kind |-> "Capsule", radius |-> 5, half_height |-> 10] }

\* every entity of the model: a collider shape and a transform
Entities == [shape : Shapes, transform : Transforms]

\* the few entities of the worlds whole frames are run on
FrameEntities ==
    { [shape |-> [kind |-> "Capsule", radius |-> 5, half_height |-> 10],
       transform |-> [translation |-> <<20, -30, 5>>, rotation |-> 1, scale |-> <<1, 1, 1>>]],
      [shape |-> [kind |-> "Cuboid", half_extents |-> <<20, 5>>],
       transform |-> [translation |-> <<0, 0, 0>>, rotation |-> 3, scale |-> <<2, 3, 1>>]] }

SeqsUpTo(S, n) == UNION { [1..m -> S] : m \in 0..n }

\* the ColliderAabb of the k-th entity of the AABB query
AabbAt(k) == [mins |-> <<-10 * k, -20>>, maxs |-> <<10 * k + 4, 20 * k>>]

\* the contact of the Collision event with id `id`
ContactAt(id) ==
    [point1 |-> <<10 * id + 5, id - 20>>, point2 |-> <<10 * id + 7, 4 - 3 * id>>]

(***************************************************************************)
(* State.                                                                  *)
(***************************************************************************)
VARIABLES
    config,            \* the PhysicsDebugConfig resource
    cols,              \* what Query<(&Collider, &Transform)> yields, in order
    aabbs,             \* what Query<&ColliderAabb> yields, in order
    events_a,          \* Events<Collision>: the older buffer
    events_b,          \* Events<Collision>: the buffer events are sent to
    event_count,       \* Events<Collision>: events sent so far
    last_event_count,  \* the EventReader's cursor
    iter,              \* the events the running contacts loop has yet to read
    gizmos,            \* the gizmo buffer of the frame, in draw order
    warnings,          \* the entities a warning was logged for this frame
    pc,                \* the step of the frame's schedule reached
    running,           \* whether the system at pc passed its run condition
    i,                 \* index of the running loop (1-based), 1 outside a loop
    frame,             \* number of the frame
    origin,            \* history: per gizmo, the system and entity/event it is for
    toggle_at_start,   \* history: per system, its own toggle when it was reached
    read,              \* history: the events read this frame, in order
    drawn_before,      \* history: the ids of the events drawn in earlier frames
    contacts_ran_prev  \* history: whether debug_render_contacts ran last frame

vars == << config, cols, aabbs, events_a, events_b, event_count, last_event_count,
           iter, gizmos, warnings, pc, running, i, frame, origin, toggle_at_start,
           read, drawn_before, contacts_ran_prev >>

world == << cols, aabbs >>

events == << events_a, events_b, event_count >>

reader == << last_event_count, iter, read, drawn_before, contacts_ran_prev >>

output == << gizmos, origin, warnings >>

\* history: the toggle of the configuration that is a system's own
OwnToggle(system) ==
    CASE system = "debug_render_aabbs"     -> "render_aabbs"
      [] system = "debug_render_colliders" -> "render_colliders"
      [] OTHER                             -> "render_contacts"

NotReached == [s \in Systems |-> "not_reached"]

Tags(system, idx, n) == [k \in 1..n |-> [system |-> system, idx |-> idx]]

InitCommon ==
    /\ config = DefaultConfig
    /\ aabbs = [k \in 1..Len(cols) |-> AabbAt(k)]
    /\ events_a = [events |-> <<>>, start_event_count |-> 0]
    /\ events_b = [events |-> <<>>, start_event_count |-> 0]
    /\ event_count = 0
    /\ last_event_count = 0
    /\ iter = <<>>
    /\ gizmos = <<>>
    /\ warnings = <<>>
    /\ i = 1
    /\ frame = 1
    /\ origin = <<>>
    /\ read = <<>>
    /\ drawn_before = {}
    /\ contacts_ran_prev = FALSE

\* the app after PhysicsDebugPlugin::build, before its first frame
Init ==
    /\ cols \in SeqsUpTo(FrameEntities, MaxEntities)
    /\ InitCommon
    /\ pc = "First"
    /\ running = FALSE
    /\ toggle_at_start = NotReached

(***************************************************************************)
(* Steps of a frame.                                                       *)
(***************************************************************************)
\* Events::<Collision>::update_system, in First
EventsUpdate ==
    /\ pc = "First"
    /\ events_a' = events_b
    /\ events_b' = [events |-> <<>>, start_event_count |-> event_count]
    /\ pc' = "Physics"
    /\ UNCHANGED << config, world, event_count, reader, output, running, i, frame,
                    toggle_at_start >>

\* the physics schedule up to PhysicsSet::Sync: sends the frame's Collision events
\* (sent_in is history: the frame an event was sent in)
PhysicsStep ==
    /\ pc = "Physics"
    /\ \E k \in 0..MaxEvents :
         /\ events_b' = [events_b EXCEPT !.events =
                @ \o [n \in 1..k |-> [event_id |-> event_count + n - 1,
                                      event |-> ContactAt(event_count + n - 1),
                                      sent_in |-> frame]]]
         /\ event_count' = event_count + k
    /\ pc' = Chain[1]
    /\ UNCHANGED << config, world, events_a, reader, output, running, i, frame,
                    toggle_at_start >>

\* the executor reaches a system of the chain and evaluates its run condition;
\* the contacts system that runs creates its event iterator
RunCondition ==
    /\ pc \in Systems
    /\ ~running
    /\ toggle_at_start' =
          [toggle_at_start EXCEPT ![pc] =
              IF config[OwnToggle(pc)] THEN "enabled" ELSE "disabled"]
    /\ IF RunIf(pc, config)
       THEN /\ running' = TRUE
            /\ i' = 1
            /\ pc' = pc
            /\ IF pc = "debug_render_contacts"
               THEN LET unread == Unread(events_a, events_b, last_event_count)
                    IN  /\ iter' = unread
                        /\ last_event_count' = event_count - Len(unread)
               ELSE UNCHANGED << iter, last_event_count >>
       ELSE /\ pc' = NextSystem(pc)
            /\ UNCHANGED << running, i, iter, last_event_count >>
    /\ UNCHANGED << config, world, events, read, drawn_before, contacts_ran_prev, output,
                    frame >>

\* one iteration of `for aabb in aabbs.iter()`, or the loop's end
debug_render_aabbs ==
    /\ pc = "debug_render_aabbs"
    /\ running
    /\ IF i <= Len(aabbs)
       THEN /\ gizmos' = gizmos \o AabbDraws(aabbs[i])
            /\ origin' = origin \o Tags(pc, i, Len(AabbDraws(aabbs[i])))
            /\ i' = i + 1
            /\ UNCHANGED << pc, running >>
       ELSE /\ pc' = NextSystem(pc)
            /\ running' = FALSE
            /\ i' = 1
            /\ UNCHANGED << gizmos, origin >>
    /\ UNCHANGED << config, world, events, reader, warnings, frame, toggle_at_start >>

\* one iteration of `for (col, transform) in cols.iter()`, or the loop's end
debug_render_colliders ==
    /\ pc = "debug_render_colliders"
    /\ running
    /\ IF i <= Len(cols)
       THEN LET shape     == cols[i].shape
                transform == cols[i].transform
                draws     == ColliderDraws(shape, transform)
            IN  /\ gizmos' = gizmos \o draws
                /\ origin' = origin \o Tags(pc, i, Len(draws))
                /\ warnings' = IF ShapeDispatch(shape, transform).warn
                               THEN Append(warnings, i) ELSE warnings
                /\ i' = i + 1
                /\ UNCHANGED << pc, running >>
       ELSE /\ pc' = NextSystem(pc)
            /\ running' = FALSE
            /\ i' = 1
            /\ UNCHANGED << gizmos, origin, warnings >>
    /\ UNCHANGED << config, world, events, reader, frame, toggle_at_start >>

\* one iteration of `for Collision(contact) in collisions.iter()`, or the loop's end
debug_render_contacts ==
    /\ pc = "debug_render_contacts"
    /\ running
    /\ IF iter # <<>>
       THEN LET e     == Head(iter)
                draws == ContactMarkers(e.event)
            IN  /\ gizmos' = gizmos \o draws
                /\ origin' = origin \o Tags(pc, e.event_id, Len(draws))
                /\ read' = Append(read, e)
                /\ iter' = Tail(iter)
                /\ last_event_count' = last_event_count + 1
                /\ UNCHANGED << pc, running >>
       ELSE /\ pc' = NextSystem(pc)
            /\ running' = FALSE
            /\ UNCHANGED << gizmos, origin, read, iter, last_event_count >>
    /\ UNCHANGED << config, world, events, drawn_before, contacts_ran_prev, warnings, i,
                    frame, toggle_at_start >>

\* the frame is presented: its gizmos are drawn and the buffer is cleared
FrameEnd ==
    /\ pc = "Last"
    /\ frame < MaxFrames
    /\ frame' = frame + 1
    /\ gizmos' = <<>>
    /\ origin' = <<>>
    /\ warnings' = <<>>
    /\ toggle_at_start' = NotReached
    /\ read' = <<>>
    /\ drawn_before' = drawn_before \cup { read[k].event_id : k \in 1..Len(read) }
    /\ contacts_ran_prev' = (toggle_at_start["debug_render_contacts"] = "enabled")
    /\ pc' = "First"
    /\ UNCHANGED << config, world, events, last_event_count, iter, running, i >>

\* the host application flips a toggle of the configuration, at any time
FlipToggle ==
    /\ \E t \in Toggles : config' = [config EXCEPT ![t] = ~@]
    /\ UNCHANGED << world, events, reader, output, pc, running, i, frame, toggle_at_start >>

Next ==
    \/ EventsUpdate
    \/ PhysicsStep
    \/ RunCondition
    \/ debug_render_aabbs
    \/ debug_render_colliders
    \/ debug_render_contacts
    \/ FrameEnd
    \/ FlipToggle

Spec == Init /\ [][Next]_vars

(***************************************************************************)
(* One run of debug_render_colliders over worlds that hold any entity of   *)
(* the model at one place among the entities of the frame worlds.          *)
(***************************************************************************)
ShapeWorlds ==
    { [k \in 1..n |-> IF k = at THEN e ELSE others[k]] :
         n \in 1..MaxEntities, at \in 1..MaxEntities, e \in Entities,
         others \in [1..MaxEntities -> FrameEntities] }

InitShapes ==
    /\ cols \in ShapeWorlds
    /\ InitCommon
    /\ pc = "debug_render_colliders"
    /\ running = TRUE
    /\ toggle_at_start = [NotReached EXCEPT !["debug_render_colliders"] = "enabled"]

NextShapes == debug_render_colliders

SpecShapes == InitShapes /\ [][NextShapes]_vars

(***************************************************************************)
(* What the properties read off a state.                                   *)
(***************************************************************************)
Tagged == [j \in 1..Len(gizmos) |-> [g |-> gizmos[j], o |-> origin[j]]]

\* the gizmos of a system, in draw order
SystemGizmos(system) ==
    LET sel == SelectSeq(Tagged, LAMBDA e : e.o.system = system)
    IN  [j \in 1..Len(sel) |-> sel[j].g]

\* the gizmos a system drew for entity or event idx, in draw order
GizmosOf(system, idx) ==
    LET sel == SelectSeq(Tagged, LAMBDA e : e.o.system = system /\ e.o.idx = idx)
    IN  [j \in 1..Len(sel) |-> sel[j].g]

\* the gizmos of the k-th collider after its centre cross
OutlineOf(k) == DropFirst(GizmosOf("debug_render_colliders", k), 2)

\* the shape-outline pass of this frame ran and its loop is past entity k
Visited(k) ==
    /\ toggle_at_start["debug_render_colliders"] = "enabled"
    /\ pc = "debug_render_colliders" => i > k

\* the system was reached this frame and is over (run or skipped)
PassOver(system) == toggle_at_start[system] # "not_reached" /\ pc # system

\* local point q of a shape in world space under transform t
World(t, q) == truncate(transform_point(t, Vec3(q[1], q[2], 0)))

IsSegment(d, a, b) == d.prim = "line_2d" /\ d.start = a /\ d.end = b

Supported(shape) == shape.kind \in {"Ball", "Triangle", "ConvexPolygon", "Cuboid"}

\* C1: a visited ConvexPolygon of n >= 3 points has exactly n outline segments,
\* (T(p[n]), T(p[1])), (T(p[1]), T(p[2])), ..., (T(p[n-1]), T(p[n])): each starts
\* where the one before ended and the last ends where the first started.
C1_PolygonOutline ==
    \A k \in 1..Len(cols) :
        (as_convex_polygon(cols[k].shape) /\ Len(cols[k].shape.points) >= 3 /\ Visited(k)) =>
            LET p   == cols[k].shape.points
                n   == Len(p)
                t   == cols[k].transform
                out == OutlineOf(k)
            IN  /\ Len(out) = n
                /\ \A m \in 1..n :
                      IsSegment(out[m], World(t, p[IF m = 1 THEN n ELSE m - 1]), World(t, p[m]))
                /\ \A m \in 2..n : out[m].start = out[m - 1].end
                /\ out[n].end = out[1].start

C1_Witness ==
    \E k \in 1..Len(cols) :
        /\ as_convex_polygon(cols[k].shape)
        /\ Len(cols[k].shape.points) = 4
        /\ cols[k].transform.rotation = 1
        /\ cols[k].transform.scale = <<2, 3, 1>>
        /\ Visited(k)
        /\ Len(OutlineOf(k)) = 4

\* C2: the outline of a visited Cuboid is the outline the ConvexPolygon branch
\* gives for the 4-point boundary loop of its half-extents under the same
\* transform: as many segments, the same endpoints, the same order.
C2_CuboidAsPolygon ==
    \A k \in 1..Len(cols) :
        (as_cuboid(cols[k].shape) /\ Visited(k)) =>
            LET loop == [kind |-> "ConvexPolygon", points |-> to_polyline(cols[k].shape)]
            IN  /\ Len(loop.points) = 4
                /\ OutlineOf(k) = ConvexPolygonOutline(loop, cols[k].transform)

C2_Witness ==
    \E k \in 1..Len(cols) :
        /\ as_cuboid(cols[k].shape)
        /\ cols[k].shape.half_extents = <<20, 5>>
        /\ cols[k].transform.rotation = 1
        /\ cols[k].transform.translation = <<20, -30, 5>>
        /\ Visited(k)
        /\ Len(OutlineOf(k)) = 4

\* C3: the outline of a visited Ball of radius r is one circle, centred on the
\* transform's translation, of radius r, and no line segment, whatever the
\* rotation and scale of the transform.
C3_BallCircle ==
    \A k \in 1..Len(cols) :
        (as_ball(cols[k].shape) /\ Visited(k)) =>
            LET out == OutlineOf(k)
            IN  /\ Len(out) = 1
                /\ out[1].prim = "circle_2d"
                /\ out[1].position = truncate(cols[k].transform.translation)
                /\ out[1].radius = cols[k].shape.radius

C3_Witness ==
    \E k \in 1..Len(cols) :
        /\ as_ball(cols[k].shape)
        /\ cols[k].transform.rotation = 3
        /\ cols[k].transform.scale = <<2, 3, 1>>
        /\ cols[k].transform.translation = <<20, -30, 5>>
        /\ Visited(k)
        /\ Len(OutlineOf(k)) = 1

\* C4: the outline of a visited Triangle a, b, c is the three segments
\* (T(a), T(b)), (T(b), T(c)), (T(c), T(a)), in that order, and nothing else.
C4_TriangleOutline ==
    \A k \in 1..Len(cols) :
        (as_triangle(cols[k].shape) /\ Visited(k)) =>
            LET sh  == cols[k].shape
                t   == cols[k].transform
                out == OutlineOf(k)
            IN  /\ Len(out) = 3
                /\ IsSegment(out[1], World(t, sh.a), World(t, sh.b))
                /\ IsSegment(out[2], World(t, sh.b), World(t, sh.c))
                /\ IsSegment(out[3], World(t, sh.c), World(t, sh.a))

C4_Witness ==
    \E k \in 1..Len(cols) :
        /\ as_triangle(cols[k].shape)
        /\ cols[k].transform.rotation = 2
        /\ cols[k].transform.scale = <<2, 3, 1>>
        /\ Visited(k)
        /\ Len(OutlineOf(k)) = 3

\* C10: every visited entity, whatever its shape, has exactly two centre-cross
\* segments, (T(0,3), T(0,-3)) then (T(3,0), T(-3,0)) (3.0 is 30 here); they are
\* its first two gizmos, before its outline, and all gizmos of an entity come
\* after all gizmos of the entities visited before it.
C10_CenterMarker ==
    /\ \A k \in 1..Len(cols) :
          Visited(k) =>
              LET eg == GizmosOf("debug_render_colliders", k)
                  t  == cols[k].transform
              IN  /\ Len(eg) >= 2
                  /\ IsSegment(eg[1], World(t, <<0, 30>>), World(t, <<0, -30>>))
                  /\ IsSegment(eg[2], World(t, <<30, 0>>), World(t, <<-30, 0>>))
                  /\ \A m \in 3..Len(eg) : eg[m].color # "GRAY"
    /\ \A j1, j2 \in 1..Len(gizmos) :
          (/\ origin[j1].system = "debug_render_colliders"
           /\ origin[j2].system = "debug_render_colliders"
           /\ origin[j1].idx < origin[j2].idx) => j1 < j2

C10_Witness ==
    /\ Len(cols) >= 2
    /\ ~Supported(cols[2].shape)
    /\ as_ball(cols[1].shape)
    /\ cols[1].transform.rotation = 1
    /\ Visited(2)
    /\ Len(GizmosOf("debug_render_colliders", 1)) = 3
    /\ Len(GizmosOf("debug_render_colliders", 2)) = 2

\* how often x occurs in seq
Count(seq, x) == Cardinality({ j \in 1..Len(seq) : seq[j] = x })

\* the gizmos debug_render_colliders draws over the entities of list, in order
RECURSIVE CollidersPassOver(_)
CollidersPassOver(list) ==
    IF list = <<>> THEN <<>>
    ELSE ColliderDraws(Head(list).shape, Head(list).transform) \o CollidersPassOver(Tail(list))

\* the colliders gizmos of the frame that are not for an unsupported entity
SupportedGizmos ==
    LET sel == SelectSeq(Tagged, LAMBDA e : /\ e.o.system = "debug_render_colliders"
                                            /\ Supported(cols[e.o.idx].shape))
    IN  [j \in 1..Len(sel) |-> sel[j].g]

\* C5: an entity of unsupported shape gets exactly one warning and no outline;
\* no other entity gets a warning; once the pass is over, what it drew for the
\* other entities is what it draws over the world without the unsupported ones;
\* and the frame goes on: at its end the contacts system has been reached and,
\* if enabled, has read every unread event.
C5_UnsupportedShape ==
    /\ \A k \in 1..Len(cols) :
          Visited(k) =>
              IF Supported(cols[k].shape)
              THEN Count(warnings, k) = 0
              ELSE Count(warnings, k) = 1 /\ OutlineOf(k) = <<>>
    /\ (toggle_at_start["debug_render_colliders"] = "enabled"
            /\ PassOver("debug_render_colliders")) =>
          SupportedGizmos =
              CollidersPassOver(SelectSeq(cols, LAMBDA e : Supported(e.shape)))
    /\ pc = "Last" =>
          /\ toggle_at_start["debug_render_contacts"] # "not_reached"
          /\ toggle_at_start["debug_render_contacts"] = "enabled" =>
                /\ iter = <<>>
                /\ Len(SystemGizmos("debug_render_contacts")) = 4 * Len(read)

C5_Witness ==
    /\ pc = "Last"
    /\ Len(cols) = 2
    /\ ~Supported(cols[1].shape)
    /\ as_cuboid(cols[2].shape)
    /\ warnings = <<1>>
    /\ Len(OutlineOf(2)) = 4
    /\ Len(read) > 0
    /\ Len(SystemGizmos("debug_render_contacts")) > 0

\* the number of gizmos a system that ran to its end has drawn
RanToEnd(system) ==
    CASE system = "debug_render_aabbs" ->
            Len(SystemGizmos(system)) = Len(aabbs)
      [] system = "debug_render_colliders" ->
            \A k \in 1..Len(cols) : Len(GizmosOf(system, k)) >= 2
      [] OTHER ->
            Len(SystemGizmos(system)) = 4 * Len(read) /\ iter = <<>>

\* C6: a pass whose own toggle was false when the pass was reached draws nothing
\* in the frame, whatever the world, the events and the other toggles; a pass
\* whose own toggle was true then has, once over, drawn for every entity or event.
C6_DisabledPassDrawsNothing ==
    \A s \in Systems :
        /\ toggle_at_start[s] = "disabled" => SystemGizmos(s) = <<>>
        /\ toggle_at_start[s] = "not_reached" => SystemGizmos(s) = <<>>
        /\ (toggle_at_start[s] = "enabled" /\ PassOver(s)) => RanToEnd(s)

C6_Witness ==
    /\ pc = "Last"
    /\ Len(aabbs) >= 2
    /\ toggle_at_start["debug_render_aabbs"] = "disabled"
    /\ toggle_at_start["debug_render_colliders"] = "enabled"
    /\ toggle_at_start["debug_render_contacts"] = "enabled"
    /\ SystemGizmos("debug_render_aabbs") = <<>>
    /\ Len(SystemGizmos("debug_render_colliders")) >= 4
    /\ Len(SystemGizmos("debug_render_contacts")) >= 4

\* C7: the contacts pass draws, for the k events it reads and in their order,
\* four segments each: through point1 along X and along Y, then through point2
\* along X and along Y, each of half-length 0.3 (3 here) about the point; 4k
\* line draws in all, none for k = 0.
C7_ContactMarkers ==
    LET cg == SystemGizmos("debug_render_contacts")
    IN  /\ Len(cg) = 4 * Len(read)
        /\ \A m \in 1..Len(read) :
              LET p1 == read[m].event.point1
                  p2 == read[m].event.point2
              IN  /\ IsSegment(cg[4 * m - 3], <<p1[1] - 3, p1[2]>>, <<p1[1] + 3, p1[2]>>)
                  /\ IsSegment(cg[4 * m - 2], <<p1[1], p1[2] - 3>>, <<p1[1], p1[2] + 3>>)
                  /\ IsSegment(cg[4 * m - 1], <<p2[1] - 3, p2[2]>>, <<p2[1] + 3, p2[2]>>)
                  /\ IsSegment(cg[4 * m], <<p2[1], p2[2] - 3>>, <<p2[1], p2[2] + 3>>)
                  /\ Len(GizmosOf("debug_render_contacts", read[m].event_id)) = 4
        /\ \A m, n \in 1..Len(read) : m < n => read[m].event_id < read[n].event_id
        /\ (toggle_at_start["debug_render_contacts"] = "enabled"
                /\ PassOver("debug_render_contacts")) => iter = <<>>

C7_Witness ==
    /\ pc = "Last"
    /\ Len(read) = 2
    /\ Len(SystemGizmos("debug_render_contacts")) = 8

\* the ids of the events that have a contact marker in the frame's buffer
MarkedEvents ==
    { origin[j].idx : j \in { n \in 1..Len(origin) : origin[n].system = "debug_render_contacts" } }

Rank(system) ==
    CASE system = "debug_render_aabbs"     -> 1
      [] system = "debug_render_colliders" -> 2
      [] OTHER                             -> 3

\* C9: in a frame every gizmo of the AABB pass precedes every gizmo of the
\* colliders pass, which precedes every gizmo of the contacts pass (the rank of
\* the drawing system never falls from one gizmo to the next); nothing is
\* drawn before the physics step is over; while a system is at work the systems
\* before it are over and those after it not reached; at the frame's end every
\* system has been reached, and each enabled one has run to its end.
C9_PassOrder ==
    /\ \A j \in 1..(Len(gizmos) - 1) :
          Rank(origin[j].system) <= Rank(origin[j + 1].system)
    /\ pc \in {"First", "Physics"} => gizmos = <<>>
    /\ \A s \in Systems :
          pc = s =>
              \A o \in Systems :
                  /\ Rank(o) < Rank(s) => toggle_at_start[o] # "not_reached"
                  /\ Rank(o) > Rank(s) =>
                        toggle_at_start[o] = "not_reached" /\ SystemGizmos(o) = <<>>
    /\ pc = "Last" =>
          \A s \in Systems :
              /\ toggle_at_start[s] # "not_reached"
              /\ toggle_at_start[s] = "enabled" => RanToEnd(s)

C9_Witness ==
    /\ pc = "Last"
    /\ Len(SystemGizmos("debug_render_aabbs")) = 2
    /\ Len(SystemGizmos("debug_render_colliders")) >= 4
    /\ Len(SystemGizmos("debug_render_contacts")) = 8
====
